---- MODULE Spec2Model ----
(***************************************************************************)
(* Session and conversational-context management of the Bujji AI vision    *)
(* assistant backend (backend/server.py): the ConnectionManager registry,  *)
(* the analyze-scene and ask-question handlers, and the websocket          *)
(* endpoint.  Handlers are asyncio coroutines on one event loop: a handler *)
(* runs atomically between two awaits, so every action below is the code   *)
(* between two suspension points.                                          *)
(*                                                                         *)
(* Text is a sequence of one-character strings; the empty sequence is the  *)
(* empty Python string (falsy).                                            *)
(***************************************************************************)
EXTENDS Integers, Sequences, FiniteSets, TLC

VARIABLES
    whisper_model,       \* module global: TRUE once whisper.load_model returned
    vision_chat,         \* module global: TRUE once the LlmChat was built
    active_connections,  \* manager.active_connections: client id -> websocket
    client_sessions,     \* manager.client_sessions: client id -> session dict
    websockets,          \* every websocket ever opened, in order of arrival
    requests,            \* the requests waiting on their collaborator, in submission order
    submitted,           \* how many analyze_scene requests have reached the vision
                         \* collaborator, and transcribe_audio requests the read of
                         \* their upload, so far
    asked,               \* how many ask_question requests have reached their collaborator so far
    temp_files,          \* the temporary files of transcribe_audio that exist:
                         \* [reading: those whose handler is in `await file.read()`,
                         \*  closed: those no handler holds any more]
    written,             \* how many websocket writes send_message has started so far
    event                \* what the step just taken did towards the outside

vars == <<whisper_model, vision_chat, active_connections, client_sessions,
          websockets, requests, submitted, asked, temp_files, written, event>>

----------------------------------------------------------------------------
(* Bounds of the model *)

\* operations of a run: websockets opened, requests that reached their
\* collaborator (an ask_question counts one half), websocket writes started
MaxOps == 3

(* Inputs *)

Clients == {"c1", "c2"}

Questions == {<<"q">>}

\* request.image_data values: a data URL of image A, the bare base64 of
\* image B (with padding), a string that is not base64, and the base64 of
\* bytes that are no image.
DataUrlA == <<"A", ",", "A", "A", "A", "A">>
RawB == <<"B", "B", "B", "=">>
InvalidBase64 == <<"A", "_">>
NotAnImage == <<"N", "N", "N", "N">>

Payloads == {DataUrlA, RawB, InvalidBase64, NotAnImage}

NoText == <<>>

----------------------------------------------------------------------------
(* str.strip(): leading and trailing whitespace removed *)

RECURSIVE LStrip(_)
LStrip(s) ==
    IF s # <<>> /\ Head(s) = " " THEN LStrip(Tail(s)) ELSE s

RECURSIVE RStrip(_)
RStrip(s) ==
    IF s # <<>> /\ s[Len(s)] = " " THEN RStrip(SubSeq(s, 1, Len(s) - 1)) ELSE s

Strip(s) == RStrip(LStrip(s))

(* request.image_data.split(',')[1] if ',' in request.image_data else
   request.image_data *)

HasComma(s) == \E i \in 1..Len(s) : s[i] = ","

FirstComma(s) == CHOOSE i \in 1..Len(s) : s[i] = "," /\ \A j \in 1..(i - 1) : s[j] # ","

RECURSIVE UpToComma(_)
UpToComma(s) ==
    IF s = <<>> \/ Head(s) = "," THEN <<>> ELSE <<Head(s)>> \o UpToComma(Tail(s))

SplitField(s) ==
    IF HasComma(s) THEN UpToComma(SubSeq(s, FirstComma(s) + 1, Len(s))) ELSE s

(* base64.b64decode(s) with validate=False: characters outside the alphabet
   are skipped, a pad that completes the quad ends the data, and data left
   in an incomplete quad is an error (binascii.Error).  The decoded bytes
   are represented by the data characters that carry them. *)

Base64Alphabet == {"A", "B", "N"}

RECURSIVE B64Scan(_, _, _, _)
B64Scan(s, quad_pos, pads, data) ==
    IF s = <<>> THEN [ok |-> quad_pos = 0, data |-> data]
    ELSE IF Head(s) = "=" THEN
        IF quad_pos >= 2 /\ quad_pos + pads + 1 >= 4
        THEN [ok |-> TRUE, data |-> data]
        ELSE B64Scan(Tail(s), quad_pos, IF quad_pos >= 2 THEN pads + 1 ELSE pads, data)
    ELSE IF Head(s) \notin Base64Alphabet THEN B64Scan(Tail(s), quad_pos, pads, data)
    ELSE B64Scan(Tail(s), (quad_pos + 1) % 4, 0, Append(data, Head(s)))

b64decode(s) == B64Scan(s, 0, 0, <<>>)

(* base64.b64encode(data).decode(): the data characters, padded to a quad *)

b64encode(data) ==
    data \o [i \in 1..((4 - (Len(data) % 4)) % 4) |-> "="]

(* The bytes of the two images of the model; everything else is no image *)

ImageA == <<"A", "A", "A", "A">>
ImageB == <<"B", "B", "B">>

IsDecodableImage(bytes) == bytes \in {ImageA, ImageB}

(* What the external vision model may answer for an ImageContent, before
   the handler strips it: a description of what the bytes show.  It may
   also raise. *)

SceneOf(image_base64) ==
    IF image_base64 = b64encode(ImageA) THEN "a"
    ELSE IF image_base64 = b64encode(ImageB) THEN "b"
    ELSE "n"

VisionTexts(image_base64) ==
    {<<" ", SceneOf(image_base64), " ">>}

(* What the external Q&A model may answer, before the handler strips it *)

AnswerTexts == {<<"y", " ">>}

----------------------------------------------------------------------------
(* dict and list helpers *)

Remove(seq, i) == SubSeq(seq, 1, i - 1) \o SubSeq(seq, i + 1, Len(seq))

DictSet(d, k, v) == [x \in DOMAIN d \cup {k} |-> IF x = k THEN v ELSE d[x]]

DictDel(d, k) == [x \in DOMAIN d \ {k} |-> d[x]]

EmptyDict == [x \in {} |-> 0]

(* The event a step leaves, i.e. what the handler step just taken did
   towards the outside.
     op       the handler
     client   the client id it ran for
     id       the websocket whose handler took the step, or the position of
              the request among those waiting
     status   the HTTP status it resolved with (0: none, e.g. it is suspended)
     body     the description or answer returned
     context  the scene_context returned or read; for connect, the
              description held by the session it replaced
     invoked  whether the step called an AI collaborator
     prior    the websocket registered for the client before the step (0: none)
     msg      the type of the websocket message received or written
     report   for health_check: the flags of the response
     content_type  for transcribe_audio: the content type of the upload
     newer    for a completed analyze_scene: the description stored by the
              latest-submitted request among the analyze_scene requests of the
              client that were submitted after this one and stored their
              description before it completed (<<>>: there is none) *)

NoEvent ==
    [op |-> "none", client |-> "", id |-> 0, status |-> 0, body |-> NoText,
     context |-> NoText, invoked |-> FALSE, prior |-> 0, msg |-> "",
     report |-> <<>>, content_type |-> NoText, newer |-> <<>>]

\* a handler without `except HTTPException: raise`: its `except Exception`
\* turns every HTTPException raised in the try into a 500
Failed_as_500(op, c, status) == [NoEvent EXCEPT !.op = op, !.client = c, !.status = 500]

Failed(op, c, status) == [NoEvent EXCEPT !.op = op, !.client = c, !.status = status]

Registered(c) == IF c \in DOMAIN active_connections THEN active_connections[c] ELSE 0

----------------------------------------------------------------------------
(* ConnectionManager *)

NewSession == [last_scene_description |-> NoText, conversation_history |-> <<>>]

\* connect that keeps a session the client already has (dict.setdefault)
connect_keeping(connections, sessions, websocket, client_id) ==
    [connections |-> DictSet(connections, client_id, websocket),
     sessions |-> IF client_id \in DOMAIN sessions
                  THEN sessions ELSE DictSet(sessions, client_id, NewSession)]

\* connect, after `await websocket.accept()` returned
connect(connections, sessions, websocket, client_id) ==
    [connections |-> DictSet(connections, client_id, websocket),
     sessions |-> DictSet(sessions, client_id, NewSession)]

\* disconnect with the `in` guards forgotten: `del` of a missing key raises
disconnect_unguarded(connections, sessions, client_id) ==
    [connections |-> DictDel(connections, client_id),
     sessions |-> DictDel(sessions, client_id),
     raised |-> client_id \notin DOMAIN connections \/ client_id \notin DOMAIN sessions]

\* disconnect that forgets the session
disconnect_connection_only(connections, sessions, client_id) ==
    [connections |-> IF client_id \in DOMAIN connections
                     THEN DictDel(connections, client_id) ELSE connections,
     sessions |-> sessions,
     raised |-> FALSE]

disconnect(connections, sessions, client_id) ==
    [connections |-> IF client_id \in DOMAIN connections
                     THEN DictDel(connections, client_id) ELSE connections,
     sessions |-> IF client_id \in DOMAIN sessions
                  THEN DictDel(sessions, client_id) ELSE sessions,
     raised |-> FALSE]

(* The context store, as the handlers use it *)

SceneDescriptionOf(sessions, c) ==
    IF c \in DOMAIN sessions THEN sessions[c].last_scene_description ELSE NoText

getSceneDescription(c) == SceneDescriptionOf(client_sessions, c)

getHistory(c) ==
    IF c \in DOMAIN client_sessions
    THEN client_sessions[c].conversation_history ELSE <<>>

\* the store that makes the session it does not find
StoreDescription_creating(sessions, client_id, description) ==
    DictSet(sessions, client_id,
            [IF client_id \in DOMAIN sessions THEN sessions[client_id] ELSE NewSession
                EXCEPT !.last_scene_description = description])

\* the store when every session is one shared dict object
StoreDescription_shared(sessions, client_id, description) ==
    IF client_id \in DOMAIN sessions
    THEN [x \in DOMAIN sessions |->
             [sessions[x] EXCEPT !.last_scene_description = description]]
    ELSE sessions

\* analyze_scene's store of the description
StoreDescription(sessions, client_id, description) ==
    IF client_id \in DOMAIN sessions
    THEN [sessions EXCEPT ![client_id].last_scene_description = description]
    ELSE sessions

\* the append through dict.setdefault: it makes the session it does not find
StoreHistory_creating(sessions, client_id, entry) ==
    IF client_id \in DOMAIN sessions
    THEN [sessions EXCEPT ![client_id].conversation_history = Append(@, entry)]
    ELSE DictSet(sessions, client_id,
                 [NewSession EXCEPT !.conversation_history = <<entry>>])

\* the history assigned instead of appended to
StoreHistory_assigned(sessions, client_id, entry) ==
    IF client_id \in DOMAIN sessions
    THEN [sessions EXCEPT ![client_id].conversation_history = <<entry>>]
    ELSE sessions

\* ask_question's append to the conversation history
StoreHistory(sessions, client_id, entry) ==
    IF client_id \in DOMAIN sessions
    THEN [sessions EXCEPT ![client_id].conversation_history = Append(@, entry)]
    ELSE sessions

----------------------------------------------------------------------------
(* Requests *)

Awaiting(i, kind) == i \in 1..Len(requests) /\ requests[i].kind = kind

NewRequest(kind, c, image, question, context) ==
    [kind |-> kind, client |-> c, image |-> image, question |-> question,
     scene_context |-> context, newer |-> <<>>]

\* request i of the waiting ones has stored `description`: the earlier
\* analyze_scene requests of its client that still wait have been overtaken
Overtake(i, description) ==
    [j \in 1..Len(requests) |->
        IF /\ j < i
           /\ requests[j].client = requests[i].client
           /\ requests[j].kind = "analyze_scene"
           /\ requests[i].newer = <<>>
        THEN [requests[j] EXCEPT !.newer = <<description>>]
        ELSE requests[j]]

\* what a run has used of its bound, in halves: an ask_question that reached
\* its collaborator counts one half, every other operation counted counts one
Used == 2 * (submitted + written + Len(websockets)) + asked

Budget == Used + 2 <= 2 * MaxOps

AskBudget == Used + 1 <= 2 * MaxOps

Init ==
    /\ whisper_model = FALSE
    /\ vision_chat = FALSE
    /\ active_connections = EmptyDict
    /\ client_sessions = EmptyDict
    /\ websockets = <<>>
    /\ requests = <<>>
    /\ submitted = 0
    /\ asked = 0
    /\ temp_files = [reading |-> 0, closed |-> 0]
    /\ written = 0
    /\ event = NoEvent

(* startup_event: the whisper model is loaded, then the vision chat is built
   unless EMERGENT_LLM_KEY is missing (the handler then raises).  The server
   runs it before it serves anything; handlers called without it (a test
   client that skips the lifespan) find both globals None. *)

startup_event ==
    /\ ~whisper_model /\ ~vision_chat /\ event = NoEvent
    /\ whisper_model' = TRUE
    /\ \E key \in BOOLEAN : vision_chat' = key
    /\ event' = [NoEvent EXCEPT !.op = "startup"]
    /\ UNCHANGED <<active_connections, client_sessions, websockets, requests, submitted, written,
                   asked, temp_files>>

(* analyze_scene up to `await scene_chat.send_message(user_message)` *)

DecodeImage(image_data) == b64decode(SplitField(image_data))

\* the status analyze_scene resolves with before it reaches the
\* collaborator (0: it reaches it)
AnalyzeGate(image_data) ==
    IF ~vision_chat THEN 503
    ELSE IF ~DecodeImage(image_data).ok THEN 400
    ELSE 0

analyze_scene(c, image_data) ==
    /\ Budget
    /\ IF AnalyzeGate(image_data) # 0
       THEN /\ event' = Failed("analyze_scene", c, AnalyzeGate(image_data))
            /\ UNCHANGED <<requests, submitted>>
       ELSE /\ requests' = Append(requests,
                   NewRequest("analyze_scene", c,
                              b64encode(DecodeImage(image_data).data), NoText, NoText))
            /\ submitted' = submitted + 1
            /\ event' = [NoEvent EXCEPT !.op = "analyze_scene", !.client = c,
                                        !.id = Len(requests) + 1, !.invoked = TRUE]
    /\ UNCHANGED <<whisper_model, vision_chat, active_connections, client_sessions,
                   websockets, written,
                   asked, temp_files>>

(* analyze_scene from the return of send_message to the response *)

analyze_scene_resume(i, response) ==
    /\ Awaiting(i, "analyze_scene")
    /\ response \in VisionTexts(requests[i].image)
    /\ LET description == Strip(response)
           c == requests[i].client
       IN /\ client_sessions' = StoreDescription(client_sessions, c, description)
          /\ requests' = Remove(IF c \in DOMAIN client_sessions
                                 THEN Overtake(i, description) ELSE requests, i)
          /\ event' = [NoEvent EXCEPT !.op = "analyze_scene", !.client = c, !.id = i,
                                      !.status = 200, !.body = description,
                                      !.newer = requests[i].newer]
    /\ UNCHANGED <<whisper_model, vision_chat, active_connections, websockets, submitted, written,
                   asked, temp_files>>

(* send_message raised: `except Exception` turns it into a 500 *)

\* analyze_scene that stores the text of the exception as the description
\* before it re-raises
analyze_scene_raise_stored(i) ==
    /\ Awaiting(i, "analyze_scene")
    /\ requests' = Remove(requests, i)
    /\ client_sessions' = StoreDescription(client_sessions, requests[i].client, <<"e">>)
    /\ event' = [Failed("analyze_scene", requests[i].client, 500) EXCEPT
                    !.id = i, !.newer = requests[i].newer]
    /\ UNCHANGED <<whisper_model, vision_chat, active_connections, websockets, submitted, written,
                   asked, temp_files>>

analyze_scene_raise(i) ==
    /\ Awaiting(i, "analyze_scene")
    /\ requests' = Remove(requests, i)
    /\ event' = [Failed("analyze_scene", requests[i].client, 500) EXCEPT
                    !.id = i, !.newer = requests[i].newer]
    /\ UNCHANGED <<whisper_model, vision_chat, active_connections, client_sessions,
                   websockets, submitted, written,
                   asked, temp_files>>

(* ask_question up to `await qa_chat.send_message(user_message)` *)

\* ask_question with the `if not scene_context` check forgotten
AskGate_unchecked(scene_context) ==
    IF ~vision_chat THEN 503 ELSE 0

\* the status ask_question resolves with before it reaches the collaborator
\* (0: it reaches it)
AskGate(scene_context) ==
    IF ~vision_chat THEN 503
    ELSE IF scene_context = NoText THEN 400
    ELSE 0

ask_question(c, question) ==
    /\ AskBudget
    /\ LET scene_context == getSceneDescription(c)
       IN IF AskGate(scene_context) # 0
          THEN /\ event' = Failed("ask_question", c, AskGate(scene_context))
               /\ UNCHANGED <<requests, asked>>
          ELSE /\ requests' = Append(requests,
                      NewRequest("ask_question", c, NoText, question, scene_context))
               /\ asked' = asked + 1
               /\ event' = [NoEvent EXCEPT !.op = "ask_question", !.client = c,
                                           !.id = Len(requests) + 1,
                                           !.context = scene_context, !.invoked = TRUE]
    /\ UNCHANGED <<whisper_model, vision_chat, active_connections, client_sessions,
                   websockets, written,
                   submitted, temp_files>>

(* ask_question from the return of send_message to the response *)

ask_question_resume(i, response) ==
    /\ Awaiting(i, "ask_question")
    /\ response \in AnswerTexts
    /\ LET answer == Strip(response)
           c == requests[i].client
           entry == [question |-> requests[i].question, answer |-> answer,
                     scene_context |-> requests[i].scene_context]
       IN /\ client_sessions' = StoreHistory(client_sessions, c, entry)
          /\ event' = [NoEvent EXCEPT !.op = "ask_question", !.client = c, !.id = i,
                                      !.status = 200, !.body = answer,
                                      !.context = requests[i].scene_context]
    /\ requests' = Remove(requests, i)
    /\ UNCHANGED <<whisper_model, vision_chat, active_connections, websockets, submitted, written,
                   asked, temp_files>>

ask_question_raise(i) ==
    /\ Awaiting(i, "ask_question")
    /\ requests' = Remove(requests, i)
    /\ event' = [Failed("ask_question", requests[i].client, 500) EXCEPT !.id = i]
    /\ UNCHANGED <<whisper_model, vision_chat, active_connections, client_sessions,
                   websockets, submitted, written,
                   asked, temp_files>>

(* websocket_endpoint: a client opens /ws/{client_id}; the handler is
   suspended in manager.connect on `await websocket.accept()`.
   A websocket is [client, state, to, msg]; state is where its handler is:
     "accepting"  in `await websocket.accept()`
     "open"       in `await websocket.receive_text()`
     "sending"    in `await ... .send_text(...)` of send_message, writing a
                  message of type msg to websocket `to`
     "closed"     the handler has returned or raised *)

NewWebSocket(c) == [client |-> c, state |-> "accepting", to |-> 0, msg |-> ""]

websocket_endpoint(c) ==
    /\ Budget
    /\ websockets' = Append(websockets, NewWebSocket(c))
    /\ event' = [NoEvent EXCEPT !.op = "websocket_endpoint", !.client = c,
                                !.id = Len(websockets) + 1, !.prior = Registered(c)]
    /\ UNCHANGED <<whisper_model, vision_chat, active_connections, client_sessions,
                   requests, submitted, written,
                   asked, temp_files>>

(* accept returned: the rest of manager.connect, then the handler waits in
   receive_text *)

websocket_accepted(k) ==
    /\ k \in 1..Len(websockets) /\ websockets[k].state = "accepting"
    /\ LET c == websockets[k].client
           m == connect(active_connections, client_sessions, k, c)
       IN /\ active_connections' = m.connections
          /\ client_sessions' = m.sessions
          /\ event' = [NoEvent EXCEPT !.op = "connect", !.client = c, !.id = k,
                                      !.prior = Registered(c),
                                      !.context = getSceneDescription(c)]
    /\ websockets' = [websockets EXCEPT ![k].state = "open"]
    /\ UNCHANGED <<whisper_model, vision_chat, requests, submitted, written,
                   asked, temp_files>>

(* accept raised (the peer went away during the handshake): connect is
   outside the handler's try, nothing is registered or unregistered *)

websocket_accept_raise(k) ==
    /\ k \in 1..Len(websockets) /\ websockets[k].state = "accepting"
    /\ websockets' = [websockets EXCEPT ![k].state = "closed"]
    /\ event' = [NoEvent EXCEPT !.op = "accept_raise", !.client = websockets[k].client,
                                !.id = k, !.prior = Registered(websockets[k].client)]
    /\ UNCHANGED <<whisper_model, vision_chat, active_connections, client_sessions,
                   requests, submitted, written,
                   asked, temp_files>>

(* receive_text raised WebSocketDisconnect: manager.disconnect(client_id) *)

websocket_disconnect(k) ==
    /\ k \in 1..Len(websockets) /\ websockets[k].state = "open"
    /\ LET c == websockets[k].client
           m == disconnect(active_connections, client_sessions, c)
       IN /\ active_connections' = m.connections
          /\ client_sessions' = m.sessions
          /\ event' = [NoEvent EXCEPT !.op = "disconnect", !.client = c, !.id = k,
                                      !.status = IF m.raised THEN 500 ELSE 0,
                                      !.prior = Registered(c)]
    /\ websockets' = [websockets EXCEPT ![k].state = "closed"]
    /\ UNCHANGED <<whisper_model, vision_chat, requests, submitted, written,
                   asked, temp_files>>

(* The handler's loop: receive_text returned `data`.  json.loads(data),
   data.get("type"), then send_message for the two types it knows. *)

\* the texts a client sends: the two messages the handler knows, a JSON
\* object of another type, a JSON value that is no object, and no JSON
Inbound == {"{\"type\": \"ping\"}", "{\"type\": \"scene_update\"}",
            "{\"type\": \"status\"}", "[]", "{"}

\* json.loads followed by data.get("type"): raised is TRUE when either
\* raises (JSONDecodeError, or AttributeError: a list has no get)
MessageType(data) ==
    CASE data = "{\"type\": \"ping\"}" -> [raised |-> FALSE, type |-> "ping"]
      [] data = "{\"type\": \"scene_update\"}" -> [raised |-> FALSE, type |-> "scene_update"]
      [] data = "{\"type\": \"status\"}" -> [raised |-> FALSE, type |-> "status"]
      [] OTHER -> [raised |-> TRUE, type |-> ""]

\* the handler answering every message it could parse
Reply_any(type) ==
    IF type = "ping" THEN "pong" ELSE "scene_acknowledged"

\* the type of the message the handler answers with ("": it does not answer)
Reply(type) ==
    IF type = "ping" THEN "pong"
    ELSE IF type = "scene_update" THEN "scene_acknowledged"
    ELSE ""

\* send_message's lookup: the websocket it writes to (0: it writes nothing)
send_message_to(connections, client_id) ==
    IF client_id \in DOMAIN connections THEN connections[client_id] ELSE 0

\* send_message's `except Exception` with the disconnect forgotten
send_message_except_kept(connections, sessions, client_id) ==
    [connections |-> connections, sessions |-> sessions, raised |-> FALSE]

\* send_message's `except Exception`: log, then disconnect
send_message_except(connections, sessions, client_id) ==
    disconnect(connections, sessions, client_id)

websocket_receive(k, data) ==
    /\ k \in 1..Len(websockets) /\ websockets[k].state = "open"
    /\ LET c == websockets[k].client
           message == MessageType(data)
           reply == Reply(message.type)
           to == send_message_to(active_connections, c)
           m == disconnect(active_connections, client_sessions, c)
       IN IF message.raised
          THEN \* `except Exception`: manager.disconnect(client_id)
               /\ active_connections' = m.connections
               /\ client_sessions' = m.sessions
               /\ websockets' = [websockets EXCEPT ![k].state = "closed"]
               /\ event' = [NoEvent EXCEPT !.op = "disconnect", !.client = c, !.id = k,
                                           !.status = IF m.raised THEN 500 ELSE 0,
                                           !.prior = Registered(c)]
               /\ UNCHANGED written
          ELSE /\ IF reply # "" /\ to # 0
                  THEN /\ Budget
                       /\ websockets' = [websockets EXCEPT ![k].state = "sending",
                                                           ![k].to = to, ![k].msg = reply]
                       /\ written' = written + 1
                  ELSE UNCHANGED <<websockets, written>>
               /\ event' = [NoEvent EXCEPT !.op = "receive", !.client = c, !.id = k,
                                           !.msg = message.type, !.prior = Registered(c)]
               /\ UNCHANGED <<active_connections, client_sessions>>
    /\ UNCHANGED <<whisper_model, vision_chat, requests, submitted,
                   asked, temp_files>>

(* send_text returned: send_message returns and the handler is back in
   receive_text *)

send_text_return(k) ==
    /\ k \in 1..Len(websockets) /\ websockets[k].state = "sending"
    /\ websockets' = [websockets EXCEPT ![k].state = "open", ![k].to = 0, ![k].msg = ""]
    /\ event' = [NoEvent EXCEPT !.op = "send_text", !.client = websockets[k].client,
                                !.id = k, !.msg = websockets[k].msg,
                                !.prior = Registered(websockets[k].client)]
    /\ UNCHANGED <<whisper_model, vision_chat, active_connections, client_sessions,
                   requests, submitted, written,
                   asked, temp_files>>

(* send_text raised: send_message disconnects the client and returns; the
   handler is back in receive_text *)

send_text_raise(k) ==
    /\ k \in 1..Len(websockets) /\ websockets[k].state = "sending"
    /\ LET c == websockets[k].client
           m == send_message_except(active_connections, client_sessions, c)
       IN /\ active_connections' = m.connections
          /\ client_sessions' = m.sessions
          /\ event' = [NoEvent EXCEPT !.op = "send_raise", !.client = c, !.id = k,
                                      !.msg = websockets[k].msg,
                                      !.status = IF m.raised THEN 500 ELSE 0,
                                      !.prior = Registered(c)]
    /\ websockets' = [websockets EXCEPT ![k].state = "open", ![k].to = 0, ![k].msg = ""]
    /\ UNCHANGED <<whisper_model, vision_chat, requests, submitted, written,
                   asked, temp_files>>

(* health_check *)

\* health_check answering "healthy" with both flags hard-wired
health_report_healthy ==
    [whisper_loaded |-> TRUE, vision_loaded |-> TRUE]

health_report ==
    [whisper_loaded |-> whisper_model, vision_loaded |-> vision_chat]

health_check ==
    /\ event' = [NoEvent EXCEPT !.op = "health_check", !.status = 200,
                                !.report = <<health_report>>]
    /\ UNCHANGED <<whisper_model, vision_chat, active_connections, client_sessions,
                   websockets, requests, submitted, written,
                   asked, temp_files>>

(* transcribe_audio up to `await file.read()`: the temporary file has been
   created (delete=False) and is open *)

\* file.content_type of an upload: a wav file, a text file, "audio" with no
\* subtype, and none
AudioWav == <<"a", "u", "d", "i", "o", "/", "w", "a", "v">>

TextPlain == <<"t", "e", "x", "t", "/", "p", "l", "a", "i", "n">>

ContentTypes == {AudioWav, TextPlain, <<"a", "u", "d", "i", "o">>, NoText}

\* str.startswith
StartsWith(text, prefix) ==
    Len(prefix) <= Len(text) /\ SubSeq(text, 1, Len(prefix)) = prefix

\* the status transcribe_audio resolves with before it creates its
\* temporary file (0: it creates it)
TranscribeGate(content_type) ==
    IF ~whisper_model THEN 503
    ELSE IF content_type = NoText
            \/ ~StartsWith(content_type, <<"a", "u", "d", "i", "o", "/">>) THEN 400
    ELSE 0

\* how many temporary files exist
TempFiles(files) == files.reading + files.closed

transcribe_audio(content_type) ==
    /\ Budget
    /\ IF TranscribeGate(content_type) # 0
       THEN /\ event' = [Failed("transcribe_audio", "", TranscribeGate(content_type))
                            EXCEPT !.content_type = content_type]
            /\ UNCHANGED <<temp_files, submitted>>
       ELSE /\ temp_files' = [temp_files EXCEPT !.reading = @ + 1]
            /\ submitted' = submitted + 1
            /\ event' = [NoEvent EXCEPT !.op = "transcribe_audio",
                                        !.id = temp_files.reading + 1,
                                        !.content_type = content_type]
    /\ UNCHANGED <<whisper_model, vision_chat, active_connections, client_sessions,
                   websockets, requests, written, asked>>

(* file.read() returned: the content is written and the file closed, then
   whisper_model.transcribe runs (it is a blocking call, nothing else runs
   meanwhile) and returns a text or raises; `finally` unlinks the file *)

transcribe_audio_resume(text, raised) ==
    /\ temp_files.reading > 0
    /\ temp_files' = [temp_files EXCEPT !.reading = @ - 1]
    /\ event' = [NoEvent EXCEPT !.op = "transcribe_audio", !.id = temp_files.reading,
                                !.status = IF raised THEN 500 ELSE 200,
                                !.body = IF raised THEN NoText ELSE Strip(text),
                                !.invoked = TRUE]
    /\ UNCHANGED <<whisper_model, vision_chat, active_connections, client_sessions,
                   websockets, requests, submitted, written, asked>>

(* file.read() raised inside the `with`: the file is closed by the `with`,
   the try/finally that unlinks it is never entered, and `except Exception`
   answers 500 *)

transcribe_audio_read_raise ==
    /\ temp_files.reading > 0
    /\ temp_files' = [temp_files EXCEPT !.reading = @ - 1, !.closed = @ + 1]
    /\ event' = [Failed("transcribe_audio", "", 500) EXCEPT !.id = temp_files.reading]
    /\ UNCHANGED <<whisper_model, vision_chat, active_connections, client_sessions,
                   websockets, requests, submitted, written, asked>>

Scenes == {"a", "b", "n"}

Next ==
    \/ startup_event
    \/ \E c \in Clients, p \in Payloads : analyze_scene(c, p)
    \/ \E i \in 1..MaxOps, s \in Scenes : analyze_scene_resume(i, <<" ", s, " ">>)
    \/ \E i \in 1..MaxOps : analyze_scene_raise(i)
    \/ \E c \in Clients, q \in Questions : ask_question(c, q)
    \/ \E i \in 1..MaxOps, t \in AnswerTexts : ask_question_resume(i, t)
    \/ \E i \in 1..MaxOps : ask_question_raise(i)
    \/ \E c \in Clients : websocket_endpoint(c)
    \/ \E k \in 1..MaxOps : websocket_accepted(k)
    \/ \E k \in 1..MaxOps : websocket_accept_raise(k)
    \/ \E k \in 1..MaxOps : websocket_disconnect(k)
    \/ \E k \in 1..MaxOps, data \in Inbound : websocket_receive(k, data)
    \/ \E k \in 1..MaxOps : send_text_return(k)
    \/ \E k \in 1..MaxOps : send_text_raise(k)
    \/ health_check
    \/ \E content_type \in ContentTypes : transcribe_audio(content_type)
    \/ \E raised \in BOOLEAN : transcribe_audio_resume(<<" ", "t">>, raised)
    \/ transcribe_audio_read_raise

Spec == Init /\ [][Next]_vars

(* What the event loop and the transport guarantee: a websocket handshake
   and a websocket write each end, by returning or by raising.  Nothing
   makes a client send a request or a message, and nothing makes an AI
   collaborator answer: the handlers await it with no timeout. *)

HandshakeEnds == \E k \in 1..MaxOps : websocket_accepted(k) \/ websocket_accept_raise(k)

WriteEnds == \E k \in 1..MaxOps : send_text_return(k) \/ send_text_raise(k)

FairSpec == Spec /\ WF_vars(HandshakeEnds) /\ WF_vars(WriteEnds)

----------------------------------------------------------------------------
(* Properties *)

AnalyzeSucceeded == event.op = "analyze_scene" /\ event.status = 200

\* the step just taken is the first part of ask_question, past the backend check
AskStarted == event.op = "ask_question" /\ (event.invoked \/ event.status \in {400, 503})

(* C1: right after a successful analyze_scene for client c, c has a session
   (created if it had none) and its stored description is the description
   the call returned. *)
C1_AnalyzeStoresDescription ==
    AnalyzeSucceeded =>
        /\ event.client \in DOMAIN client_sessions
        /\ getSceneDescription(event.client) = event.body

(* C2: an ask_question for client c submitted right after a successful
   analyze_scene for c (so with no disconnect in between) does not resolve
   with 400 NoContext: it reaches the Q&A collaborator with the description
   analyze_scene returned as its scene_context. *)
C2_AskAfterAnalyzeHasContext ==
    [][(/\ AnalyzeSucceeded
        /\ event'.op = "ask_question"
        /\ event'.client = event.client
        /\ event'.status \in {0, 400})
       => (event'.invoked /\ event'.context = event.body)]_vars

(* C3 as claimed: an ask_question for a client with no stored description
   (no session, or a session whose description is empty) resolves with 400
   NoContext without calling the Q&A collaborator, in every state, also
   when the vision backend is not initialized. *)
C3_NoContextAlways ==
    (AskStarted /\ getSceneDescription(event.client) = NoText) =>
        (event.status = 400 /\ ~event.invoked)

(* C3 as amended: an ask_question for a client with no stored description
   never calls the Q&A collaborator; it resolves with 400 NoContext when the
   vision backend is initialized and with 503 BackendUnavailable when not. *)
C3_NoContextWhenBackendUp ==
    (AskStarted /\ getSceneDescription(event.client) = NoText) =>
        /\ ~event.invoked
        /\ event.status = IF vision_chat THEN 400 ELSE 503

\* an ask_question of a client whose session holds an empty description
\* was just refused with 400
C3_Witness ==
    /\ event.op = "ask_question" /\ event.status = 400
    /\ event.client \in DOMAIN client_sessions
    /\ getSceneDescription(event.client) = NoText

(* C4: when two analyze_scene calls of a client overlap, the later-submitted
   one decides: once both have completed, the stored description is the one
   of the later-submitted call, whichever completed last.  Stated for a
   client that holds a session, where analyze_scene stores at all. *)
C4_SubmissionOrderWins ==
    (/\ AnalyzeSucceeded
     /\ event.newer # <<>>
     /\ event.client \in DOMAIN client_sessions)
    => getSceneDescription(event.client) = event.newer[1]

(* C5: after each analyze_scene call of a client completes, the stored
   description is the result of the most recently completed successful call:
   a call that succeeds leaves its own result stored, a call that fails
   leaves the stored description as it was; and the stored description never
   becomes a value that no analyze_scene call of that client produced. *)
C5_LastCompletedWins ==
    [][/\ (event'.op = "analyze_scene" /\ event'.status = 200)
            => SceneDescriptionOf(client_sessions', event'.client) = event'.body
       /\ (event'.op = "analyze_scene" /\ event'.status = 500)
            => SceneDescriptionOf(client_sessions', event'.client)
                   = SceneDescriptionOf(client_sessions, event'.client)
       /\ \A c \in Clients :
            (/\ SceneDescriptionOf(client_sessions', c) # SceneDescriptionOf(client_sessions, c)
             /\ SceneDescriptionOf(client_sessions', c) # NoText)
            => (/\ event'.op = "analyze_scene" /\ event'.status = 200
                /\ event'.client = c
                /\ event'.body = SceneDescriptionOf(client_sessions', c))
      ]_vars

(* C6: requests of one client are serialized: no request reads the client's
   context (ask_question, when it is submitted) or writes it (either handler,
   when it completes successfully) while an earlier-submitted request of the
   same client still waits on its collaborator. *)
TouchedContext ==
    \/ event.op = "ask_question" /\ (event.invoked \/ event.status = 400)
    \/ event.op \in {"analyze_scene", "ask_question"} /\ event.status = 200

EarlierWaiting ==
    \E j \in 1..Len(requests) :
        /\ requests[j].client = event.client
        /\ (j < event.id \/ event.status = 400)

C6_PerClientSerialized == ~(TouchedContext /\ EarlierWaiting)

(* C7: an analyze_scene of client c that completes successfully right after
   c's websocket closed (disconnect ran while the request was waiting) still
   commits: the stored description of c is its result. *)
C7_CommitAfterDisconnect ==
    [][(/\ event.op = "disconnect"
        /\ event'.op = "analyze_scene"
        /\ event'.client = event.client
        /\ event'.status = 200)
       => SceneDescriptionOf(client_sessions', event'.client) = event'.body]_vars

(* C8: when connect registers a websocket for a client id that already has
   one registered, the new websocket is the registered one and the one it
   replaced has been closed. *)
C8_ReplacedChannelClosed ==
    (event.op = "connect" /\ event.prior # 0) =>
        /\ Registered(event.client) = event.id
        /\ websockets[event.prior].state = "closed"

(* C9: disconnect is idempotent: it never raises; run for a client id that
   is not registered it leaves active_connections and client_sessions as
   they were; and run again right after itself it changes nothing. *)
C9_DisconnectIdempotent ==
    [][event'.op = "disconnect" =>
         LET again == disconnect(active_connections', client_sessions', event'.client)
         IN /\ event'.status = 0
            /\ ~again.raised
            /\ again.connections = active_connections'
            /\ again.sessions = client_sessions'
            /\ (event'.prior = 0 =>
                   UNCHANGED <<active_connections, client_sessions>>)]_vars

\* disconnect has just run for a client id that was not registered (the
\* handler of a websocket that had been replaced and whose successor is gone)
C9_Witness ==
    /\ event.op = "disconnect" /\ event.prior = 0
    /\ event.client \notin DOMAIN client_sessions

(* C10: analyze_scene never calls the vision collaborator with a payload
   that is not a decodable image (it resolves with 400 InvalidInput
   instead). *)
C10_NonImageRejected ==
    (event.op = "analyze_scene" /\ event.invoked) =>
        IsDecodableImage(b64decode(requests[event.id].image).data)

(* C11: an analyze_scene whose call of the vision collaborator raised
   resolves with 500 and leaves every session as it was: the stored
   description and the conversation history of its client are unchanged. *)
C11_FailedAnalyzeKeepsContext ==
    [][(/\ event'.op = "analyze_scene"
        /\ event'.id # 0 /\ ~event'.invoked
        /\ event'.status # 200)
       => (/\ event'.status = 500
           /\ client_sessions' = client_sessions)]_vars

\* an analyze_scene of a client that holds a stored description has just
\* failed on its collaborator
C11_Witness ==
    /\ event.op = "analyze_scene" /\ event.status = 500 /\ event.id # 0
    /\ getSceneDescription(event.client) # NoText

(* C12: every analyze_scene or ask_question request that waits on its
   collaborator is eventually resolved, whether or not the collaborator
   ever answers: no request stays pending forever. *)
C12_RequestsResolve == (requests # <<>>) ~> (requests = <<>>)

(* C13: send_message is fire-and-forget.  When its write raises, nothing
   reaches the caller (the handler goes on to its next receive_text) and the
   client is unregistered: it is in neither active_connections nor
   client_sessions.  When no websocket is registered for the client, no
   write is started and both dicts stay as they were. *)
C13_SendFireAndForget ==
    [][/\ event'.op = "send_raise" =>
            /\ event'.status = 0
            /\ websockets'[event'.id].state = "open"
            /\ event'.client \notin DOMAIN active_connections'
            /\ event'.client \notin DOMAIN client_sessions'
       /\ (event'.op = "receive" /\ event'.prior = 0) =>
            /\ websockets' = websockets /\ written' = written
            /\ active_connections' = active_connections
            /\ client_sessions' = client_sessions
      ]_vars

\* the write of a reply to a registered websocket has just raised
C13_Witness ==
    /\ event.op = "send_raise" /\ event.prior # 0
    /\ websockets[event.id].state = "open"

\* the handler of a websocket whose client is no longer registered has just
\* received a ping
C13_NoChannelReached ==
    event.op = "receive" /\ event.prior = 0 /\ event.msg = "ping"

(* C14: the handler of the registered websocket of client c answers a ping
   with exactly one write, of a pong, to that websocket, and a scene_update
   with exactly one write of a scene_acknowledged; a message of any other
   type starts no write and changes nothing.  Receiving any of them calls no
   AI collaborator and changes no session, and when the write returns the
   handler is back in receive_text with nothing more to write. *)
C14_MessagesAnswered ==
    [][/\ (event'.op = "receive" /\ event'.prior = event'.id) =>
            /\ ~event'.invoked
            /\ UNCHANGED <<client_sessions, active_connections, requests, submitted, asked>>
            /\ websockets' =
                 CASE event'.msg = "ping" ->
                        [websockets EXCEPT ![event'.id].state = "sending",
                                           ![event'.id].to = event'.id,
                                           ![event'.id].msg = "pong"]
                   [] event'.msg = "scene_update" ->
                        [websockets EXCEPT ![event'.id].state = "sending",
                                           ![event'.id].to = event'.id,
                                           ![event'.id].msg = "scene_acknowledged"]
                   [] OTHER -> websockets
       /\ event'.op = "send_text" =>
            /\ event'.msg = websockets[event'.id].msg
            /\ websockets' = [websockets EXCEPT ![event'.id].state = "open",
                                                ![event'.id].to = 0,
                                                ![event'.id].msg = ""]
            /\ UNCHANGED <<client_sessions, active_connections, requests, submitted, asked>>
      ]_vars

\* the pong to a ping has just been written to the registered websocket
\* that received the ping
C14_Witness ==
    /\ event.op = "send_text" /\ event.msg = "pong"
    /\ event.prior = event.id

\* a message of another type has just been received on a registered websocket
C14_OtherReached ==
    event.op = "receive" /\ event.msg = "status" /\ event.prior = event.id

(* C15: in every state, the response of health_check has vision_loaded true
   exactly when vision_chat is set and whisper_loaded true exactly when
   whisper_model is set. *)
C15_HealthReportsCollaborators ==
    event.op = "health_check" =>
        /\ Len(event.report) = 1
        /\ event.report[1].vision_loaded = vision_chat
        /\ event.report[1].whisper_loaded = whisper_model

\* health_check has just answered in a state where the vision chat is not
\* set (startup has not run, or it found no EMERGENT_LLM_KEY)
C15_Witness ==
    /\ event.op = "health_check"
    /\ ~vision_chat
    /\ ~event.report[1].vision_loaded

(* C16: when the websocket registered for client c has replaced an earlier
   websocket of c, the end of the earlier websocket's handler (its peer
   closed it, or its receive raised) leaves the registration and the session
   of c alone: the later websocket is still active_connections[c] and c
   still has its session. *)
C16_ReplacedCloseKeepsSuccessor ==
    (event.op = "disconnect" /\ event.prior # 0 /\ event.prior # event.id) =>
        /\ Registered(event.client) = event.prior
        /\ event.client \in DOMAIN client_sessions
        /\ websockets[event.prior].state # "closed"

(* C17: the end of a handler is final and unregisters.  Once the handler of
   a websocket of client c has ended and no other websocket of c has a
   running handler, c is in neither active_connections nor client_sessions;
   and a websocket whose handler has ended stays ended and is never
   registered again. *)
OnlyEnded(sockets, k) ==
    /\ sockets[k].state = "closed"
    /\ \A j \in 1..Len(sockets) :
          sockets[j].client = sockets[k].client
              => sockets[j].state \in {"closed", "accepting"}

C17_HandlerEndUnregisters ==
    [][/\ \A k \in 1..Len(websockets') :
            OnlyEnded(websockets', k) =>
                /\ websockets'[k].client \notin DOMAIN active_connections'
                /\ websockets'[k].client \notin DOMAIN client_sessions'
       /\ \A k \in 1..Len(websockets) :
            websockets[k].state = "closed" =>
                /\ websockets'[k].state = "closed"
                /\ send_message_to(active_connections', websockets[k].client) # k
      ]_vars

\* the handler of the only websocket of a client, which was the registered
\* one, has just ended
C17_Witness ==
    /\ event.op = "disconnect" /\ event.prior = event.id
    /\ \A j \in 1..Len(websockets) :
          websockets[j].client = event.client => j = event.id

(* C18: client ids are independent.  A step taken for client A (connect,
   disconnect, a websocket message or write, analyze_scene, ask_question)
   leaves the registered websocket, the stored description and the history
   of every other client B as they were; and a request that waits on its
   collaborator can complete while requests of other clients wait. *)
EntryOf(connections, sessions, b) ==
    [websocket |-> send_message_to(connections, b),
     session |-> IF b \in DOMAIN sessions THEN <<sessions[b]>> ELSE <<>>]

CanComplete(i) ==
    IF requests[i].kind = "analyze_scene"
    THEN ENABLED (\E s \in Scenes : analyze_scene_resume(i, <<" ", s, " ">>))
    ELSE ENABLED (\E t \in AnswerTexts : ask_question_resume(i, t))

C18_ClientsIndependent ==
    [][/\ \A b \in Clients :
            b # event'.client =>
                EntryOf(active_connections', client_sessions', b)
                    = EntryOf(active_connections, client_sessions, b)
       /\ \A i, j \in 1..Len(requests) :
            requests[i].client # requests[j].client => CanComplete(i)
      ]_vars

\* an analyze_scene of one client has just stored its description while a
\* request of another client, submitted before it, still waits
C18_Witness ==
    /\ AnalyzeSucceeded
    /\ getSceneDescription(event.client) = event.body
    /\ \E j \in 1..Len(requests) :
          requests[j].client # event.client /\ j < event.id

\* a step has just been taken for one client while another holds a session
\* with a registered websocket
C18_TwoSessionsReached ==
    /\ event.client \in DOMAIN client_sessions
    /\ \E b \in Clients : b # event.client /\ b \in DOMAIN client_sessions

(* C19: while vision_chat is not set, every analyze_scene and every
   ask_question, whatever its input, resolves with 503, calls no AI
   collaborator and changes no session; the 503 is what the client gets, it
   is not turned into a 500. *)
HandlerEntered ==
    /\ event'.op \in {"analyze_scene", "ask_question"}
    /\ (event'.invoked \/ event'.id = 0)

C19_BackendUnavailable ==
    [][(HandlerEntered /\ ~vision_chat) =>
         /\ event'.status = 503
         /\ ~event'.invoked
         /\ UNCHANGED <<client_sessions, active_connections, requests, submitted, asked>>
      ]_vars

\* an ask_question of a client that holds a session has just been refused
\* with 503
C19_Witness ==
    /\ event.op = "ask_question" /\ event.status = 503
    /\ ~vision_chat
    /\ event.client \in DOMAIN client_sessions

\* an analyze_scene has just been refused with 503
C19_AnalyzeRefusedReached ==
    event.op = "analyze_scene" /\ event.status = 503 /\ whisper_model

(* C20: a client id has one session record at most (client_sessions is a
   dict keyed by client id), and connect replaces the record without
   merging: right after connect(c) the websocket is the registered one and
   c's session holds an empty description and an empty history, whatever it
   held before. *)
C20_ConnectReplacesSession ==
    event.op = "connect" =>
        /\ Registered(event.client) = event.id
        /\ event.client \in DOMAIN client_sessions
        /\ client_sessions[event.client] = NewSession
        /\ getSceneDescription(event.client) = NoText
        /\ getHistory(event.client) = <<>>

\* connect has just replaced a session that held a description
C20_Witness ==
    /\ event.op = "connect" /\ event.prior # 0
    /\ event.context # NoText

(* C21: a successful ask_question of a client that has a session appends
   exactly one entry to the end of the client's history: its question is the
   question submitted, its answer the answer returned, and its scene_context
   is the description read when the call began and the scene_context
   returned.  A failed ask_question changes no session.  The history of a
   session only grows at its end for as long as the session lives (until a
   connect replaces it or a disconnect removes it). *)
HistoryOf(sessions, c) ==
    IF c \in DOMAIN sessions THEN sessions[c].conversation_history ELSE <<>>

IsPrefix(s, t) == Len(s) <= Len(t) /\ SubSeq(t, 1, Len(s)) = s

C21_HistoryAppendOnly ==
    [][/\ (/\ event'.op = "ask_question" /\ event'.status = 200
            /\ event'.client \in DOMAIN client_sessions) =>
            /\ event'.context = requests[event'.id].scene_context
            /\ HistoryOf(client_sessions', event'.client)
                 = Append(HistoryOf(client_sessions, event'.client),
                          [question |-> requests[event'.id].question,
                           answer |-> event'.body,
                           scene_context |-> event'.context])
            /\ client_sessions' =
                 [client_sessions EXCEPT ![event'.client].conversation_history =
                     HistoryOf(client_sessions', event'.client)]
       /\ (event'.op = "ask_question" /\ event'.status \notin {0, 200}) =>
            client_sessions' = client_sessions
       /\ \A c \in Clients :
            (/\ c \in DOMAIN client_sessions /\ c \in DOMAIN client_sessions'
             /\ ~(event'.op = "connect" /\ event'.client = c)) =>
            IsPrefix(HistoryOf(client_sessions, c), HistoryOf(client_sessions', c))
      ]_vars

\* an ask_question has just appended its entry to a history that already
\* held one
C21_Witness ==
    /\ event.op = "ask_question" /\ event.status = 200
    /\ Len(getHistory(event.client)) = 2
    /\ getHistory(event.client)[2].answer = event.body

\* an ask_question has just failed on its collaborator while its client
\* holds a session
C21_FailedReached ==
    /\ event.op = "ask_question" /\ event.status = 500
    /\ event.client \in DOMAIN client_sessions

(* C22: when the session of client c was removed by a disconnect while an
   ask_question of c waited on its collaborator, the request can still
   complete, and when it does it returns the answer with the scene_context
   it had read, appends to nothing and creates no session for c. *)
C22_AppendWithoutSession ==
    [][/\ \A i \in 1..Len(requests) :
            (/\ requests[i].kind = "ask_question"
             /\ requests[i].client \notin DOMAIN client_sessions)
            => CanComplete(i)
       /\ (/\ event'.op = "ask_question" /\ event'.status = 200
           /\ event'.client \notin DOMAIN client_sessions) =>
            /\ event'.context = requests[event'.id].scene_context
            /\ event'.context # NoText
            /\ event'.client \notin DOMAIN client_sessions'
            /\ client_sessions' = client_sessions
      ]_vars

\* an ask_question has just returned its answer right after the disconnect
\* that removed its client's session
C22_Witness ==
    /\ event.op = "ask_question" /\ event.status = 200
    /\ event.client \notin DOMAIN client_sessions
    /\ event.context # NoText /\ event.body # NoText

(* C23: between any two handler steps, the client ids of active_connections
   are the client ids of client_sessions: no client has a session without a
   registered websocket, nor a registered websocket without a session. *)
C23_SameClients == DOMAIN active_connections = DOMAIN client_sessions

\* both dicts hold a client, and an analyze_scene of a client that is in
\* neither has just succeeded
C23_Witness ==
    /\ AnalyzeSucceeded
    /\ event.client \notin DOMAIN client_sessions
    /\ DOMAIN active_connections # {}

(* C24: nothing of a request that began before a reconnect gets into the
   new session.  When connect has just replaced the session of client c, a
   request of c that completes next (it was waiting on its collaborator
   when connect ran) writes nothing into the session. *)
C24_NoLeakIntoNewSession ==
    [][(/\ event.op = "connect" /\ event.prior # 0
        /\ event'.op \in {"analyze_scene", "ask_question"}
        /\ event'.client = event.client
        /\ event'.status = 200)
       => client_sessions' = client_sessions]_vars

(* C25: transcribe_audio leaves no temporary file behind: whenever a request
   that had created its temporary file resolves (the transcription
   succeeded, the transcriber raised, or reading the upload raised), that
   file has been deleted.  An upload whose content type does not start with
   audio/ resolves with 400 with no temporary file created and the
   transcriber not called. *)
C25_NoTempFileLeak ==
    [][/\ (event'.op = "transcribe_audio" /\ event'.id # 0 /\ event'.status # 0) =>
            /\ TempFiles(temp_files') = TempFiles(temp_files) - 1
            /\ temp_files'.closed = 0
       /\ (/\ event'.op = "transcribe_audio" /\ event'.id = 0 /\ whisper_model
           /\ ~StartsWith(event'.content_type, <<"a", "u", "d", "i", "o", "/">>)) =>
            /\ event'.status = 400
            /\ ~event'.invoked
            /\ temp_files' = temp_files
      ]_vars

====
